---------------------------- MODULE Spec2Model ----------------------------
(***************************************************************************)
(* A model of svg2png.py: inkscape_convert_svg2png (the document           *)
(* transformer and the renderer invoker) and the __main__ batch loop.      *)
(*                                                                         *)
(* Text is modelled as sequences of one-character strings, so that the     *)
(* regular expressions, endswith, splitext and the digit filter of the     *)
(* code act on characters as they do in Python.                            *)
(***************************************************************************)
EXTENDS Integers, Sequences, FiniteSets, TLC

VARIABLES
    installed,      \* environment: is an `inkscape` executable on PATH
    versionOutput,  \* environment: stdout of `inkscape --version` when installed
    srcFiles,       \* file system: source path -> SVG document
    tempfile,       \* file system: the file named TEMPFILE in the working directory
    job,            \* per invocation of inkscape_convert_svg2png: position and locals
    proc,           \* per invocation: the renderer child process started by Popen
    listing,        \* os.listdir("./icons")
    idx,            \* position of the batch loop in the listing
    batch,          \* "looping", "calling", "finished" or "crashed"
    attempts,       \* calls of svg2png made by the batch loop, in order
    serial          \* callers' discipline: at most one conversion in flight

vars == <<installed, versionOutput, srcFiles, tempfile, job, proc,
          listing, idx, batch, attempts, serial>>

-----------------------------------------------------------------------------
(* Bounds of the model *)

MaxNodes == 2       \* elements below the root of a drawn document
MaxParts == 5       \* fragments concatenated into a drawn style string
MaxVerLen == 4      \* characters of a drawn version number
MaxFiles == 3       \* entries of a drawn directory listing
NJobs == 2          \* invocations that may exist at once

Jobs == 1..NJobs
MainJob == 1

-----------------------------------------------------------------------------
(* Text helpers *)

Digits == {"0", "1", "2", "3", "4", "5", "6", "7", "8", "9"}

DigitValue(ch) ==
    CASE ch = "0" -> 0 [] ch = "1" -> 1 [] ch = "2" -> 2 [] ch = "3" -> 3
      [] ch = "4" -> 4 [] ch = "5" -> 5 [] ch = "6" -> 6 [] ch = "7" -> 7
      [] ch = "8" -> 8 [] ch = "9" -> 9

\* str.isspace for the characters that occur in the model
IsSpace(ch) == ch \in {" ", "\t", "\n"}

Min(S) == CHOOSE x \in S : \A y \in S : x <= y

\* str.endswith
EndsWith(s, suffix) ==
    /\ Len(s) >= Len(suffix)
    /\ SubSeq(s, Len(s) - Len(suffix) + 1, Len(s)) = suffix

\* `needle in s`
Contains(s, needle) ==
    \E i \in 1..(Len(s) - Len(needle) + 1) :
        SubSeq(s, i, i + Len(needle) - 1) = needle

RECURSIVE Concat(_)
Concat(parts) ==
    IF parts = <<>> THEN <<>> ELSE Head(parts) \o Concat(Tail(parts))

\* All sequences of at most n elements of S
RECURSIVE SeqsUpTo(_, _)
SeqsUpTo(S, n) ==
    IF n = 0 THEN {<<>>}
    ELSE LET shorter == SeqsUpTo(S, n - 1)
         IN  shorter \cup {Append(s, x) : s \in shorter, x \in S}

-----------------------------------------------------------------------------
(* Program constants *)

SVG_URI == <<"h", "t", "t", "p", ":", "/", "/", "w", "w", "w", ".", "w", "3",
             ".", "o", "r", "g", "/", "2", "0", "0", "0", "/", "s", "v", "g">>

\* FRAC = 0.7, in tenths
FRAC == 7

TEMPFILE == <<"t", "e", "m", "p", ".", "s", "v", "g">>

\* The color the batch loop passes: "#FFFFFF"
MainColor == <<"#", "F", "F", "F", "F", "F", "F">>

FillColon == <<"f", "i", "l", "l", ":">>

-----------------------------------------------------------------------------
(* Documents *)

NoAttr == [present |-> FALSE, val |-> <<>>]
Attr(v) == [present |-> TRUE, val |-> v]

\* Parent of a direct child of the root, and of a child of the wrapper group
RootParent == 0
GroupParent == -1

NoGroup == [present |-> FALSE, widthGap |-> 0, heightGap |-> 0]

\* The tag ElementTree gives an element: "{uri}local", or "local" without namespace
Tag(node) ==
    IF node.ns = "svg" THEN <<"{">> \o SVG_URI \o <<"}">> \o node.local
    ELSE node.local

\* What no document is: the value of a local not yet assigned
NoDoc == [wellFormed |-> FALSE, width |-> NoAttr, height |-> NoAttr,
          nodes |-> <<>>, group |-> NoGroup]

\* int_ignore_units: keep the decimal digits, int() of the rest
RECURSIVE DecimalValue(_)
DecimalValue(ds) ==
    IF ds = <<>> THEN 0
    ELSE 10 * DecimalValue(SubSeq(ds, 1, Len(ds) - 1)) + DigitValue(ds[Len(ds)])

IsDigit(ch) == ch \in Digits

DigitsOnly(s) == SelectSeq(s, IsDigit)

\* int("") raises ValueError
int_ignore_units_raises(s) == DigitsOnly(s) = <<>>

int_ignore_units(s) == DecimalValue(DigitsOnly(s))

-----------------------------------------------------------------------------
(* re.sub(r"(?<=fill:)\S+?(?=;)", color, style) *)

\* (?<=fill:) at position i
FillLookbehind(s, i) ==
    /\ i > Len(FillColon)
    /\ SubSeq(s, i - Len(FillColon), i - 1) = FillColon

\* \S+?(?=;) at position i: the length of the shortest run of one or more
\* non-space characters starting at i that a semicolon follows; 0 if none
FillMatchLen(s, i) ==
    LET ks == {k \in 1..(Len(s) - i) :
                  /\ \A m \in i..(i + k - 1) : ~IsSpace(s[m])
                  /\ s[i + k] = ";"}
    IN  IF ks = {} THEN 0 ELSE Min(ks)

\* The scan of re.sub from position i: leftmost matches, not overlapping
RECURSIVE SubFrom(_, _, _)
SubFrom(s, i, color) ==
    IF i > Len(s) THEN <<>>
    ELSE IF FillLookbehind(s, i) /\ FillMatchLen(s, i) > 0
         THEN color \o SubFrom(s, i + FillMatchLen(s, i), color)
         ELSE <<s[i]>> \o SubFrom(s, i + 1, color)

ReSubFill(s, color) == SubFrom(s, 1, color)

\* Lines 69-74: the style of an element of a moved subtree
Restyle(style, color) ==
    IF style.present THEN Attr(ReSubFill(style.val, color))
    ELSE Attr(FillColon \o color \o <<";">>)

-----------------------------------------------------------------------------
(* Lines 46-80: the transformation of the parsed document *)

S_defs == <<"d", "e", "f", "s">>
S_metadata == <<"m", "e", "t", "a", "d", "a", "t", "a">>

\* The test of lines 61-63 with "metadata" left out of the list
IsSpecialTagDefsOnly(tag) == EndsWith(tag, S_defs)

\* Lines 61-63: any(map(element.tag.endswith, ["defs", "metadata"]))
IsSpecialTag(tag) == EndsWith(tag, S_defs) \/ EndsWith(tag, S_metadata)

\* Line 58: root.findall("svg:*"): the direct children in the SVG namespace
Elements(nodes) ==
    {i \in 1..Len(nodes) : nodes[i].parent = RootParent /\ nodes[i].ns = "svg"}

\* Lines 60-65, 75: the children taken out of the root and put in the group
Moved(nodes) == {i \in Elements(nodes) : ~IsSpecialTag(Tag(nodes[i]))}

\* The direct child of the root that element i is, or is below
RECURSIVE TopOf(_, _)
TopOf(nodes, i) ==
    IF nodes[i].parent = RootParent THEN i ELSE TopOf(nodes, nodes[i].parent)

\* Lines 66-68: element.iter() over each moved child
Iterated(nodes) == {i \in 1..Len(nodes) : TopOf(nodes, i) \in Moved(nodes)}

\* The exception lines 46-55 raise on this source, or "none"
ParseOutcome(doc) ==
    IF ~doc.wellFormed THEN "ParseError"
    ELSE IF ~doc.width.present THEN "KeyError"
    ELSE IF int_ignore_units_raises(doc.width.val) THEN "ValueError"
    ELSE IF ~doc.height.present THEN "KeyError"
    ELSE IF int_ignore_units_raises(doc.height.val) THEN "ValueError"
    ELSE "none"

\* (1 - FRAC) * dimension / 2, in twentieths (float rounding left out)
GapTwentieths(dimension) == (10 - FRAC) * dimension

\* Lines 57-80: the document written to the temp file
Transformed(doc, color) ==
    [doc EXCEPT
        !.nodes = [i \in 1..Len(doc.nodes) |->
            [doc.nodes[i] EXCEPT
                !.parent = IF i \in Moved(doc.nodes) THEN GroupParent ELSE @,
                !.style = IF i \in Iterated(doc.nodes)
                          THEN Restyle(@, color) ELSE @]],
        !.group = [present |-> TRUE,
                   widthGap |-> GapTwentieths(int_ignore_units(doc.width.val)),
                   heightGap |-> GapTwentieths(int_ignore_units(doc.height.val))]]


-----------------------------------------------------------------------------
(* Lines 84-93: the version probe and the argument list *)

S_Inkscape == <<"I", "n", "k", "s", "c", "a", "p", "e", " ">>
S_export_filename == <<"-", "-", "e", "x", "p", "o", "r", "t", "-",
                       "f", "i", "l", "e", "n", "a", "m", "e", "=">>
S_without_gui == <<"-", "-", "w", "i", "t", "h", "o", "u", "t", "-", "g", "u", "i">>
S_export_png == <<"-", "-", "e", "x", "p", "o", "r", "t", "-", "p", "n", "g", "=">>
S_w == <<"-", "w">>
S_72 == <<"7", "2">>
S_inkscape == <<"i", "n", "k", "s", "c", "a", "p", "e">>

\* [.\d]
IsVersionChar(ch) == ch = "." \/ ch \in Digits

\* (?<=Inkscape ) at position i
InkscapeLookbehind(s, i) ==
    /\ i > Len(S_Inkscape)
    /\ SubSeq(s, i - Len(S_Inkscape), i - 1) = S_Inkscape

\* [.\d]+ at position i: the length of the longest run of version characters
VersionRunLen(s, i) ==
    LET ks == {k \in 0..(Len(s) - i + 1) :
                  /\ \A m \in i..(i + k - 1) : IsVersionChar(s[m])
                  /\ (i + k <= Len(s) => ~IsVersionChar(s[i + k]))}
    IN  Min(ks)

\* re.findall(r"(?<=Inkscape )[.\d]+", version_string), scanning from i
RECURSIVE FindallFrom(_, _)
FindallFrom(s, i) ==
    IF i > Len(s) THEN <<>>
    ELSE IF InkscapeLookbehind(s, i) /\ VersionRunLen(s, i) > 0
         THEN <<SubSeq(s, i, i + VersionRunLen(s, i) - 1)>>
                  \o FindallFrom(s, i + VersionRunLen(s, i))
         ELSE FindallFrom(s, i + 1)

FindallVersion(s) == FindallFrom(s, 1)

\* Line 85-87: stdout of `inkscape --version 2>/dev/null` run by the shell;
\* the shell finds no command and prints nothing to stdout when none is installed
VersionString == IF installed THEN versionOutput ELSE <<>>

\* The exception lines 88-93 raise on this probe output, or "none"
ProbeOutcome(version_string) ==
    IF FindallVersion(version_string) = <<>> THEN "IndexError"
    ELSE IF FindallVersion(version_string)[1][1] \notin {"1", "0"}
         THEN "UnboundLocalError"
    ELSE "none"

\* Lines 89-93
Arguments(version, dst_path) ==
    (IF version[1] = "1" THEN <<S_export_filename \o dst_path>>
     ELSE <<S_without_gui, S_export_png \o dst_path>>)
        \o <<TEMPFILE, S_w, S_72>>

-----------------------------------------------------------------------------
(* One invocation of inkscape_convert_svg2png *)

NoResult == [kind |-> "none", code |-> 0, exc |-> "", at |-> ""]
Returned(code) == [kind |-> "returned", code |-> code, exc |-> "", at |-> ""]
Raised(exc, at) == [kind |-> "raised", code |-> 0, exc |-> exc, at |-> at]

NoFile == [exists |-> FALSE, writer |-> 0, content |-> NoDoc]

NoProc == [state |-> "none", argv |-> <<>>, input |-> NoFile, code |-> 0]

\* The exit codes a renderer process is taken to end with
ExitCodes == {0, 1, 2}

\* A call not yet made. wrote, launches and sawAbsent record what the call did.
NewJob(color, src_path, dst_path) ==
    [pc |-> "idle", color |-> color, src_path |-> src_path, dst_path |-> dst_path,
     xml_string |-> NoDoc, version_string |-> <<>>, arguments |-> <<>>,
     exit_code |-> 0, result |-> NoResult,
     wrote |-> FALSE, launches |-> 0, sawAbsent |-> FALSE]

\* An uncaught exception leaves the function
Raise(j, exc) ==
    job' = [job EXCEPT ![j].pc = "done", ![j].result = Raised(exc, job[j].pc)]

InFlight(j) == job[j].pc \notin {"idle", "done"}

\* Lines 46-80: parse the source, recolor and regroup, serialize
TransformStep(j) ==
    /\ job[j].pc = "parse"
    /\ LET doc == srcFiles[job[j].src_path]
       IN  IF ParseOutcome(doc) # "none"
           THEN Raise(j, ParseOutcome(doc))
           ELSE job' = [job EXCEPT ![j].pc = "open",
                                   ![j].xml_string = Transformed(doc, job[j].color)]
    /\ UNCHANGED <<installed, versionOutput, srcFiles, tempfile, proc,
                   listing, idx, batch, attempts, serial>>

\* Line 81: open(TEMPFILE, "w") creates the file or truncates it
OpenTemp(j) ==
    /\ job[j].pc = "open"
    /\ tempfile' = [exists |-> TRUE, writer |-> j, content |-> NoDoc]
    /\ job' = [job EXCEPT ![j].pc = "write"]
    /\ UNCHANGED <<installed, versionOutput, srcFiles, proc,
                   listing, idx, batch, attempts, serial>>

\* Line 82 with the write left out: the file stays as open() left it
WriteTempNothing(j) ==
    /\ job[j].pc = "write"
    /\ job' = [job EXCEPT ![j].pc = "probe", ![j].wrote = TRUE]
    /\ UNCHANGED <<installed, versionOutput, srcFiles, tempfile, proc,
                   listing, idx, batch, attempts, serial>>

\* Line 82 and the end of the with block: the text reaches the file
WriteTemp(j) ==
    /\ job[j].pc = "write"
    /\ tempfile' = [exists |-> TRUE, writer |-> j, content |-> job[j].xml_string]
    /\ job' = [job EXCEPT ![j].pc = "probe", ![j].wrote = TRUE]
    /\ UNCHANGED <<installed, versionOutput, srcFiles, proc,
                   listing, idx, batch, attempts, serial>>

\* Lines 84-93: probe the version, choose the arguments
Probe(j) ==
    /\ job[j].pc = "probe"
    /\ IF ProbeOutcome(VersionString) # "none"
       THEN job' = [job EXCEPT ![j].pc = "done",
                               ![j].version_string = VersionString,
                               ![j].sawAbsent = ~installed,
                               ![j].result = Raised(ProbeOutcome(VersionString), "probe")]
       ELSE job' = [job EXCEPT ![j].pc = "popen",
                               ![j].version_string = VersionString,
                               ![j].sawAbsent = ~installed,
                               ![j].arguments =
                                   Arguments(FindallVersion(VersionString)[1],
                                             job[j].dst_path)]
    /\ UNCHANGED <<installed, versionOutput, srcFiles, tempfile, proc,
                   listing, idx, batch, attempts, serial>>

\* Lines 95-97: start the renderer; no executable raises FileNotFoundError
Popen(j) ==
    /\ job[j].pc = "popen"
    /\ IF installed
       THEN /\ proc' = [proc EXCEPT ![j] = [state |-> "running",
                                            argv |-> <<S_inkscape>> \o job[j].arguments,
                                            input |-> NoFile, code |-> 0]]
            /\ job' = [job EXCEPT ![j].pc = "wait", ![j].launches = @ + 1]
       ELSE /\ Raise(j, "FileNotFoundError")
            /\ UNCHANGED proc
    /\ UNCHANGED <<installed, versionOutput, srcFiles, tempfile,
                   listing, idx, batch, attempts, serial>>

\* The renderer process: reads the file its arguments name, ends with some code
RendererRun(j) ==
    /\ proc[j].state = "running"
    /\ \E code \in ExitCodes :
          proc' = [proc EXCEPT ![j].state = "exited",
                               ![j].input = tempfile,
                               ![j].code = code]
    /\ UNCHANGED <<installed, versionOutput, srcFiles, tempfile, job,
                   listing, idx, batch, attempts, serial>>

\* Lines 98-100 with the exit code dropped
WaitSwallowsCode(j) ==
    /\ job[j].pc = "wait"
    /\ proc[j].state = "exited"
    /\ job' = [job EXCEPT ![j].pc = "remove", ![j].exit_code = 0]
    /\ UNCHANGED <<installed, versionOutput, srcFiles, tempfile, proc,
                   listing, idx, batch, attempts, serial>>

\* Lines 98-100: sed copies the output until the renderer closes it, wait() ends,
\* returncode is read. (sed is taken to be there to launch; its status is not read.)
Wait(j) ==
    /\ job[j].pc = "wait"
    /\ proc[j].state = "exited"
    /\ job' = [job EXCEPT ![j].pc = "remove", ![j].exit_code = proc[j].code]
    /\ UNCHANGED <<installed, versionOutput, srcFiles, tempfile, proc,
                   listing, idx, batch, attempts, serial>>

\* Line 105: os.remove(TEMPFILE); a missing file raises FileNotFoundError
Remove(j) ==
    /\ job[j].pc = "remove"
    /\ IF tempfile.exists
       THEN /\ tempfile' = NoFile
            /\ job' = [job EXCEPT ![j].pc = "return"]
       ELSE /\ Raise(j, "FileNotFoundError")
            /\ UNCHANGED tempfile
    /\ UNCHANGED <<installed, versionOutput, srcFiles, proc,
                   listing, idx, batch, attempts, serial>>

\* Line 106
Return(j) ==
    /\ job[j].pc = "return"
    /\ job' = [job EXCEPT ![j].pc = "done", ![j].result = Returned(job[j].exit_code)]
    /\ UNCHANGED <<installed, versionOutput, srcFiles, tempfile, proc,
                   listing, idx, batch, attempts, serial>>

\* The environment: the renderer is taken off PATH
Uninstall ==
    /\ installed
    /\ \E j \in Jobs : InFlight(j)
    /\ installed' = FALSE
    /\ UNCHANGED <<versionOutput, srcFiles, tempfile, job, proc,
                   listing, idx, batch, attempts, serial>>

\* The steps of the conversions in flight
ConversionStep ==
    \E j \in Jobs :
        \/ TransformStep(j)
        \/ OpenTemp(j)
        \/ WriteTemp(j)
        \/ Probe(j)
        \/ Popen(j)
        \/ RendererRun(j)
        \/ Wait(j)
        \/ Remove(j)
        \/ Return(j)


-----------------------------------------------------------------------------
(* Lines 120-126: the batch loop over ./icons *)

S_dot_svg == <<".", "s", "v", "g">>
S_dot_png == <<".", "p", "n", "g">>
S_icons == <<"i", "c", "o", "n", "s", "/">>

\* The positions of the dots of a name that follow a character that is no dot
ExtDots(name) ==
    {d \in 1..Len(name) :
        /\ name[d] = "."
        /\ \E k \in 1..(d - 1) : name[k] # "."}

Max(S) == CHOOSE x \in S : \A y \in S : x >= y

\* os.path.splitext of a name without separators: the extension starts at the last
\* dot, unless only dots precede it
Splitext(name) ==
    IF ExtDots(name) = {} THEN <<name, <<>>>>
    ELSE <<SubSeq(name, 1, Max(ExtDots(name)) - 1),
           SubSeq(name, Max(ExtDots(name)), Len(name))>>

SrcPath(basename) == S_icons \o basename \o S_dot_svg
DstPath(basename) == S_icons \o basename \o S_dot_png

\* Lines 123-126: the next entry: not an .svg, or a call of svg2png
LoopNext ==
    /\ batch = "looping"
    /\ idx <= Len(listing)
    /\ LET basename == Splitext(listing[idx])[1]
           ext == Splitext(listing[idx])[2]
       IN  IF ext = S_dot_svg
           THEN /\ job' = [job EXCEPT ![MainJob] =
                              [NewJob(MainColor, SrcPath(basename), DstPath(basename))
                                  EXCEPT !.pc = "parse"]]
                /\ proc' = [proc EXCEPT ![MainJob] = NoProc]
                /\ attempts' = Append(attempts,
                                      [entry |-> idx, src_path |-> SrcPath(basename),
                                       dst_path |-> DstPath(basename)])
                /\ batch' = "calling"
                /\ UNCHANGED idx
           ELSE /\ idx' = idx + 1
                /\ UNCHANGED <<job, proc, attempts, batch>>
    /\ UNCHANGED <<installed, versionOutput, srcFiles, tempfile, listing, serial>>

\* The call returned: the result is dropped and the loop goes on
LoopReturn ==
    /\ batch = "calling"
    /\ job[MainJob].pc = "done"
    /\ job[MainJob].result.kind = "returned"
    /\ idx' = idx + 1
    /\ batch' = "looping"
    /\ UNCHANGED <<installed, versionOutput, srcFiles, tempfile, job, proc,
                   listing, attempts, serial>>

\* The call raised: nothing in the loop catches it, the script ends
LoopRaise ==
    /\ batch = "calling"
    /\ job[MainJob].pc = "done"
    /\ job[MainJob].result.kind = "raised"
    /\ batch' = "crashed"
    /\ UNCHANGED <<installed, versionOutput, srcFiles, tempfile, job, proc,
                   listing, idx, attempts, serial>>

\* The listing is exhausted
LoopEnd ==
    /\ batch = "looping"
    /\ idx > Len(listing)
    /\ batch' = "finished"
    /\ UNCHANGED <<installed, versionOutput, srcFiles, tempfile, job, proc,
                   listing, idx, attempts, serial>>

-----------------------------------------------------------------------------
(* Inputs *)

\* Sources: width and height attributes
DimChoices ==
    { <<Attr(<<"2", "4">>), Attr(<<"2", "4">>)>>,
      <<Attr(<<"4", "8", "p", "x">>), Attr(<<"4", "8">>)>>,
      <<NoAttr, Attr(<<"2", "4">>)>>,
      <<Attr(<<"2", "4">>), Attr(<<"p", "x">>)>> }

\* Sources: the kinds of element
NodeKinds ==
    { [ns |-> "svg", local |-> <<"g">>],
      [ns |-> "svg", local |-> S_defs],
      [ns |-> "svg", local |-> S_metadata],
      [ns |-> "other", local |-> <<"n", "v">>] }

\* Sources: style attributes, one for each prior state of an element
StyleChoices ==
    { NoAttr,
      Attr(<<"f", "i", "l", "l", ":", "r", ";">>),
      Attr(<<"s", ":", "r", ";">>),
      Attr(<<"f", "i", "l", "l", ":", "r">>),
      Attr(<<"f", "i", "l", "l", ":", " ", "r", ";">>) }

\* The elements a drawn document is made of: any kind, any style, below the root
\* or below another element
NodeChoices ==
    {[ns |-> k.ns, local |-> k.local, parent |-> p, style |-> st] :
        k \in NodeKinds, p \in 0..(MaxNodes - 1), st \in StyleChoices}

\* Elements stand in document order: a parent precedes its children
IsDocumentOrder(nodes) == \A i \in 1..Len(nodes) : nodes[i].parent < i

DocOf(dims, nodes) ==
    [wellFormed |-> TRUE, width |-> dims[1], height |-> dims[2],
     nodes |-> nodes, group |-> NoGroup]

MalformedDoc == NoDoc

\* A plain source: a shape, a defs child, a shape with a style
GoodDoc ==
    DocOf(<<Attr(<<"2", "4">>), Attr(<<"2", "4">>)>>,
          << [ns |-> "svg", local |-> <<"g">>, parent |-> 0, style |-> NoAttr],
             [ns |-> "svg", local |-> S_defs, parent |-> 0, style |-> NoAttr] >>)

GoodDims == <<Attr(<<"2", "4">>), Attr(<<"2", "4">>)>>

\* Unparsable sources and sources of each width and height
FlatDocs == {MalformedDoc} \cup {DocOf(d, <<>>) : d \in DimChoices}

\* Style strings: up to MaxParts fragments, concatenated
StyleFrags ==
    { FillColon, <<";">>, <<" ">>, <<"r">>, <<"x">>, <<"s", ":">> }

StyleStrings == {Concat(parts) : parts \in SeqsUpTo(StyleFrags, MaxParts)}

StyleDocs ==
    {DocOf(<<Attr(<<"2", "4">>), Attr(<<"2", "4">>)>>,
           << [ns |-> "svg", local |-> <<"g">>, parent |-> 0, style |-> Attr(s)] >>) :
        s \in StyleStrings}

Colors == {MainColor, <<"b">>}

\* Probe outputs: nothing, or a product name and up to MaxVerLen version characters
VersionChars == {"0", "1", "2", "."}

ProbeOutputs ==
    {prefix \o v : prefix \in {<<>>, S_Inkscape, <<"i", "n", "k", " ">>},
                   v \in SeqsUpTo(VersionChars, MaxVerLen)}

-----------------------------------------------------------------------------
(* Specifications *)

Quiet ==
    /\ tempfile = NoFile
    /\ proc = [j \in Jobs |-> NoProc]
    /\ listing = <<>>
    /\ idx = 1
    /\ attempts = <<>>

OnePath == SrcPath(<<"a">>)

OneCall(color, doc) ==
    /\ srcFiles = [p \in {OnePath} |-> doc]
    /\ job = [j \in Jobs |->
                 IF j = MainJob
                 THEN [NewJob(color, OnePath, DstPath(<<"a">>)) EXCEPT !.pc = "parse"]
                 ELSE NewJob(color, OnePath, DstPath(<<"a">>))]
    /\ batch = "none"
    /\ serial = TRUE

\* The transformer on drawn documents
InitDoc ==
    /\ Quiet
    /\ installed = TRUE
    /\ versionOutput = S_Inkscape \o <<"1", ".", "0">>
    /\ \E color \in Colors :
          \/ \E doc \in FlatDocs : OneCall(color, doc)
          \/ \E n \in 1..MaxNodes :
                \E nodes \in [1..n -> NodeChoices] :
                    /\ IsDocumentOrder(nodes)
                    /\ OneCall(color, DocOf(GoodDims, nodes))

\* The transformer on drawn style strings
InitStyle ==
    /\ Quiet
    /\ installed = TRUE
    /\ versionOutput = S_Inkscape \o <<"1", ".", "0">>
    /\ \E color \in Colors, doc \in StyleDocs : OneCall(color, doc)

NextTransform ==
    \E j \in Jobs : TransformStep(j) \/ OpenTemp(j) \/ WriteTemp(j)

SpecDoc == InitDoc /\ [][NextTransform]_vars

SpecStyle == InitStyle /\ [][NextTransform]_vars


\* Directory entries
FileNames ==
    { <<"a", ".", "s", "v", "g">>,
      <<"b", ".", "p", "n", "g">>,
      <<"c", ".", "s", "v", "g">>,
      <<".", "s", "v", "g">>,
      <<"d", ".", "t", ".", "s", "v", "g">> }

IsInjective(s) == \A i, k \in 1..Len(s) : s[i] = s[k] => i = k

\* os.listdir: distinct names, in any order
Listings == {s \in SeqsUpTo(FileNames, MaxFiles) : IsInjective(s)}

\* The sources the loop will open
SvgPaths(names) ==
    {SrcPath(Splitext(names[i])[1]) :
        i \in {k \in 1..Len(names) : Splitext(names[k])[2] = S_dot_svg}}

BatchDocs == {GoodDoc, MalformedDoc}

BatchVersions ==
    { S_Inkscape \o <<"1", ".", "0", ".", "2">>,
      S_Inkscape \o <<"0", ".", "9", "2">>,
      S_Inkscape \o <<"2", ".", "0">> }

Environment(versions) ==
    \/ installed = TRUE /\ versionOutput \in versions
    \/ installed = FALSE /\ versionOutput = <<>>

\* The script is started on a directory
Init ==
    /\ Environment(BatchVersions)
    /\ listing \in Listings
    /\ srcFiles \in [SvgPaths(listing) -> BatchDocs]
    /\ tempfile = NoFile
    /\ job = [j \in Jobs |-> NewJob(<<>>, <<>>, <<>>)]
    /\ proc = [j \in Jobs |-> NoProc]
    /\ idx = 1
    /\ batch = "looping"
    /\ attempts = <<>>
    /\ serial = TRUE

Next ==
    \/ LoopNext
    \/ LoopReturn
    \/ LoopRaise
    \/ LoopEnd
    \/ ConversionStep
    \/ Uninstall

Spec == Init /\ [][Next]_vars

\* One call of the function under drawn probe outputs
InitProbe ==
    /\ Quiet
    /\ Environment(ProbeOutputs)
    /\ OneCall(MainColor, GoodDoc)

NextCall == ConversionStep \/ Uninstall

SpecProbe == InitProbe /\ [][NextCall]_vars

\* Callers of the function in one working directory, serial or not
ConcPath(j) == SrcPath(<<"a">>) \o Concat([i \in 1..j |-> <<"a">>])

ConcDoc(j) ==
    DocOf(<<Attr(<<"2", "4">>), Attr(<<"2", "4">>)>>,
          [i \in 1..j |-> [ns |-> "svg", local |-> <<"g">>, parent |-> 0,
                           style |-> NoAttr]])

InitConc ==
    /\ Quiet
    /\ Environment({S_Inkscape \o <<"1", ".", "0", ".", "2">>})
    /\ srcFiles = [p \in {ConcPath(j) : j \in Jobs} |->
                      ConcDoc(CHOOSE j \in Jobs : ConcPath(j) = p)]
    /\ job = [j \in Jobs |-> NewJob(MainColor, ConcPath(j), ConcPath(j) \o S_dot_png)]
    /\ batch = "none"
    /\ serial \in BOOLEAN

\* A caller enters the function; a serial caller waits for the call in flight
Call(j) ==
    /\ job[j].pc = "idle"
    /\ serial => \A k \in Jobs : ~InFlight(k)
    /\ job' = [job EXCEPT ![j].pc = "parse"]
    /\ UNCHANGED <<installed, versionOutput, srcFiles, tempfile, proc,
                   listing, idx, batch, attempts, serial>>

NextConc ==
    \/ \E j \in Jobs : Call(j)
    \/ ConversionStep
    \/ Uninstall

SpecConc == InitConc /\ [][NextConc]_vars


-----------------------------------------------------------------------------
(* Claims about the invoker and the batch loop *)

Finished(j) == job[j].pc = "done"

\* C1: once temp.svg has been written, it is deleted on every exit path of the
\* conversion: in every terminal state of a conversion the temp file does not exist.
C1_TempRemovedOnEveryExit ==
    \A j \in Jobs : (Finished(j) /\ job[j].wrote) => ~tempfile.exists

IsSvgEntry(i) == Splitext(listing[i])[2] = S_dot_svg

BatchOver == batch \in {"finished", "crashed"}

\* C2: a failed conversion is terminal only for its file: when the batch is over,
\* every .svg entry of the listing has had its conversion attempt.
C2_BatchReachesEnd ==
    BatchOver =>
        \A i \in 1..Len(listing) :
            IsSvgEntry(i) => \E k \in 1..Len(attempts) : attempts[k].entry = i

ReportedVersion(version_string) ==
    IF FindallVersion(version_string) = <<>> THEN <<>>
    ELSE FindallVersion(version_string)[1]

\* The digits of a dotted version before its first dot
RECURSIVE MajorDigits(_)
MajorDigits(version) ==
    IF version = <<>> \/ Head(version) = "." THEN <<>>
    ELSE <<Head(version)>> \o MajorDigits(Tail(version))

Probed(j) ==
    /\ job[j].pc \notin {"idle", "parse", "open", "write", "probe"}
    /\ Finished(j) => job[j].result.at \notin {"parse", "open", "write"}

\* C4: the argument list is a function of the major version number of the probe:
\* major version 1 gives [--export-filename=<dst>, temp.svg, -w, 72], major version
\* 0 gives [--without-gui, --export-png=<dst>, temp.svg, -w, 72], and any other
\* major version or an unparsable probe output raises and launches no renderer.
C4_ArgumentsFollowMajorVersion ==
    \A j \in Jobs :
        Probed(j) =>
            LET major == MajorDigits(ReportedVersion(job[j].version_string))
            IN  IF major # <<>> /\ DecimalValue(major) = 1
                THEN job[j].arguments =
                         <<S_export_filename \o job[j].dst_path, TEMPFILE, S_w, S_72>>
                ELSE IF major # <<>> /\ DecimalValue(major) = 0
                THEN job[j].arguments =
                         <<S_without_gui, S_export_png \o job[j].dst_path,
                           TEMPFILE, S_w, S_72>>
                ELSE /\ Finished(j)
                     /\ job[j].result.kind = "raised"
                     /\ job[j].result.at = "probe"
                     /\ job[j].launches = 0

\* What the code raises on an unparsable or unsupported version
VersionErrors == {"IndexError", "UnboundLocalError"}

\* C5: with no renderer executable in the environment the conversion ends in an
\* error of its own: never an exit-code result, and not the error of an unparsable
\* or unsupported version.
C5_AbsentRendererHasItsOwnError ==
    \A j \in Jobs :
        (Finished(j) /\ Probed(j) /\ job[j].sawAbsent) =>
            /\ job[j].result.kind = "raised"
            /\ job[j].result.exc \notin VersionErrors

\* The calls a listing asks for: one for each .svg entry, in order
RECURSIVE ExpectedAttempts(_)
ExpectedAttempts(n) ==
    IF n = 0 THEN <<>>
    ELSE IF IsSvgEntry(n)
         THEN Append(ExpectedAttempts(n - 1),
                     [entry |-> n,
                      src_path |-> S_icons \o listing[n],
                      dst_path |-> S_icons
                                     \o SubSeq(listing[n], 1, Len(listing[n]) - 4)
                                     \o S_dot_png])
         ELSE ExpectedAttempts(n - 1)

\* C9: the batch makes exactly one attempt for each .svg entry and none for any
\* other, one after another, the attempt for <base>.svg with destination <base>.png.
C9_OneAttemptPerSvgEntry ==
    /\ BatchOver => attempts = ExpectedAttempts(Len(listing))
    /\ batch = "looping" => \A j \in Jobs : ~InFlight(j)

-----------------------------------------------------------------------------
(* Claims about callers that interleave *)

ReadOwnDocument(j) ==
    proc[j].input = [exists |-> TRUE, writer |-> j, content |-> job[j].xml_string]

\* C10: when conversions run one at a time, every renderer reads the document its
\* own job wrote and every delete finds the file (interleaved calls do not: see
\* C10_InterleavedUnsafe).
C10_SerialCallsAreSafe ==
    serial =>
        \A j \in Jobs :
            /\ proc[j].state = "exited" => ReadOwnDocument(j)
            /\ job[j].result.kind = "raised" => job[j].result.at # "remove"

\* Interleaved: one job's renderer read the other job's document, and the other
\* job's delete found the file already deleted
C10_InterleavedUnsafe ==
    /\ ~serial
    /\ \E j, k \in Jobs :
          /\ j # k
          /\ proc[j].state = "exited"
          /\ proc[j].input.exists
          /\ proc[j].input.writer = k
          /\ proc[j].input.content = job[k].xml_string
          /\ job[k].result = Raised("FileNotFoundError", "remove")


-----------------------------------------------------------------------------
(* Claims about the transformer *)

\* The call of job j has produced its document
TransformDone(j) == job[j].xml_string.group.present

SourceNodes(j) == srcFiles[job[j].src_path].nodes
OutputNodes(j) == job[j].xml_string.nodes

\* Element i of the output is a child of the wrapper group, or below one
RECURSIVE InWrapper(_, _)
InWrapper(nodes, i) ==
    IF nodes[i].parent = GroupParent THEN TRUE
    ELSE IF nodes[i].parent = RootParent THEN FALSE
    ELSE InWrapper(nodes, nodes[i].parent)

\* The style holds the declaration fill:<color>
DeclaresFill(style, color) ==
    /\ style.present
    /\ \/ Contains(style.val, FillColon \o color \o <<";">>)
       \/ EndsWith(style.val, FillColon \o color)

\* C6: after recoloring with color C, every element moved into the wrapper group,
\* and every descendant of one, has a style with a fill declaration of value C,
\* whatever its style was before.
C6_EveryMovedElementHasTargetFill ==
    \A j \in Jobs :
        TransformDone(j) =>
            \A i \in 1..Len(OutputNodes(j)) :
                InWrapper(OutputNodes(j), i) =>
                    DeclaresFill(OutputNodes(j)[i].style, job[j].color)

TaggedDefsOrMetadata(node) == node.local \in {S_defs, S_metadata}

Untouched(j, i) ==
    /\ ~InWrapper(OutputNodes(j), i)
    /\ OutputNodes(j)[i].parent = SourceNodes(j)[i].parent
    /\ OutputNodes(j)[i].style = SourceNodes(j)[i].style

\* C7, as stated: no element tagged defs or metadata, at any depth, is moved into
\* the wrapper group or has its style created or changed.
C7_NoDefsOrMetadataTouched ==
    \A j \in Jobs :
        TransformDone(j) =>
            \A i \in 1..Len(SourceNodes(j)) :
                TaggedDefsOrMetadata(SourceNodes(j)[i]) => Untouched(j, i)

\* C7, amended: no element tagged defs or metadata that is a direct child of the
\* root is moved into the wrapper group or has its style created or changed.
C7_NoTopLevelDefsOrMetadataTouched ==
    \A j \in Jobs :
        TransformDone(j) =>
            \A i \in 1..Len(SourceNodes(j)) :
                (/\ TaggedDefsOrMetadata(SourceNodes(j)[i])
                 /\ SourceNodes(j)[i].parent = RootParent) => Untouched(j, i)

\* A document with a defs or metadata child of the root in the SVG namespace left
\* in place, beside a child that was moved
C7_Witness ==
    \E j \in Jobs :
        /\ TransformDone(j)
        /\ \E i, k \in 1..Len(SourceNodes(j)) :
              /\ TaggedDefsOrMetadata(SourceNodes(j)[i])
              /\ SourceNodes(j)[i].ns = "svg"
              /\ SourceNodes(j)[i].parent = RootParent
              /\ OutputNodes(j)[i].parent = RootParent
              /\ OutputNodes(j)[k].parent = GroupParent

\* The declarations of a style: its pieces between semicolons
RECURSIVE SplitSemis(_)
SplitSemis(s) ==
    IF \A i \in 1..Len(s) : s[i] # ";" THEN <<s>>
    ELSE LET semi == Min({i \in 1..Len(s) : s[i] = ";"})
         IN  <<SubSeq(s, 1, semi - 1)>> \o SplitSemis(SubSeq(s, semi + 1, Len(s)))

\* The property name of a declaration: what precedes its first colon, spaces dropped
NotSpace(ch) == ~IsSpace(ch)

DeclName(decl) ==
    IF \A i \in 1..Len(decl) : decl[i] # ":" THEN SelectSeq(decl, NotSpace)
    ELSE SelectSeq(SubSeq(decl, 1, Min({i \in 1..Len(decl) : decl[i] = ":"}) - 1),
                   NotSpace)

\* A declaration of a property other than fill (an empty piece declares nothing)
IsOtherDecl(decl) ==
    /\ SelectSeq(decl, NotSpace) # <<>>
    /\ DeclName(decl) # <<"f", "i", "l", "l">>

OtherDecls(s) == SelectSeq(SplitSemis(s), IsOtherDecl)

\* The style holds fill:<value>;
HasFillSegment(s) ==
    \E i \in 1..Len(s) :
        /\ FillLookbehind(s, i)
        /\ \E k \in i..Len(s) : s[k] = ";"

\* C8: for a style that contains fill:<value>;, recoloring leaves every property
\* other than fill, and the order of the properties, byte-identical.
C8_OnlyFillValueChanges ==
    \A j \in Jobs :
        TransformDone(j) =>
            \A i \in 1..Len(SourceNodes(j)) :
                (/\ SourceNodes(j)[i].style.present
                 /\ HasFillSegment(SourceNodes(j)[i].style.val)) =>
                    OtherDecls(OutputNodes(j)[i].style.val)
                        = OtherDecls(SourceNodes(j)[i].style.val)

=============================================================================
